---- MODULE Spec2Model ----
(***************************************************************************)
(* Model of SimpLL's ModuleComparator::compareFunctions (the result cache  *)
(* ComparedFuns, the MissingDefs list, the tryInline channel and the       *)
(* inlining loop) together with the name helpers hasSuffix / dropSuffix.   *)
(*                                                                         *)
(* compareFunctions is re-entrant: the function comparator it invokes      *)
(* calls back into compareFunctions for pairs of callees.  The model keeps *)
(* the C++ call stack explicitly (variable stack); one action is one       *)
(* stretch of compareFunctions between two comparator invocations.         *)
(*                                                                         *)
(* Spec     one ModuleComparator instance driven by the host.              *)
(* SymSpec  two fresh instances side by side, the second with the modules  *)
(*          exchanged (variable sym).                                      *)
(* RvSpec   one run of RemoveUnusedReturnValuesPass on a module (variable  *)
(*          rv).                                                           *)
(* NameSpec, StackSpec, EffectSpec, CallsSpec: applications of the helpers *)
(*          hasSuffix / dropSuffix, getCallStack, hasSideEffect and        *)
(*          FunctionInfo::addCall (variable ut).                           *)
(***************************************************************************)
EXTENDS Integers, Sequences, FiniteSets, TLC

\* nullptr
Null == "null"

\* ---- bounds of the model ------------------------------------------------
\* number of top-level compareFunctions calls made by the host
MaxHostCalls == 2
\* depth of nested compareFunctions calls (frames on the C++ stack)
MaxDepth == 2
\* length of the MissingDefs vector
MaxMissing == 2

\* number of uses of a function in the module given to the pass
MaxUses == 2

\* length of the names given to hasSuffix and dropSuffix
MaxLen == 5

\* std::string::npos: the "not found" position, larger than every position
npos == 2147483647

\* ---- the two modules under comparison ----------------------------------
\* Functions of module First and of module Second.  f, g: definitions that
\* call each other; foo: plain declaration; asm: declaration that is a
\* SimpLL abstraction; fa: field access abstraction (has a body);
\* Rintr: an intrinsic declaration.
FunsFirst == {"Lf", "Lg", "Lfoo", "Lasm", "Lfa"}
FunsSecond == {"Rf", "Rg", "Rfoo", "Rintr", "Rfa"}
Funs == FunsFirst \cup FunsSecond

\* Function::isDeclaration
isDeclaration(F) == F \in {"Lfoo", "Lasm", "Rfoo", "Rintr"}

\* Function::isIntrinsic
isIntrinsic(F) == F \in {"Rintr"}

\* isSimpllAbstraction: name carries the reserved SimpLL prefix
isSimpllAbstraction(F) == F \in {"Lasm", "Lfa", "Rfa"}

\* isSimpllFieldAccessAbstraction
isSimpllFieldAccessAbstraction(F) == F \in {"Lfa", "Rfa"}

\* Function::getName, as a sequence of characters
getName(F) ==
    CASE F = "Lf" -> <<"b">>
      [] F = "Rf" -> <<"b">>
      [] F = "Lg" -> <<"c">>
      [] F = "Rg" -> <<"c">>
      [] F = "Lfoo" -> <<"a">>
      [] F = "Rfoo" -> <<"a", ".", "1">>
      [] F = "Lasm" -> <<"c", ".", "1">>
      [] F = "Rintr" -> <<"b", ".", "2">>
      [] F = "Lfa" -> <<"t">>
      [] F = "Rfa" -> <<"t">>

\* The call instructions of each definition when the modules are loaded,
\* given by their callees.  Three pairs of modules are considered:
\* "split":  f calls g and a declaration (function split, missing bodies);
\* "field":  f calls g and a field access abstraction;
\* "rec":    f calls itself and g, g calls f (recursion).

InitialCalls(w, F) ==
    CASE w = "split" ->
           (CASE F = "Lf" -> {"Lg", "Lfoo"}
              [] F = "Rf" -> {"Rg", "Rfoo"}
              [] F = "Lg" -> {"Lasm"}
              [] F = "Rg" -> {"Rintr"}
              [] OTHER -> {})
      [] w = "field" ->
           (CASE F = "Lf" -> {"Lg", "Lfa"}
              [] F = "Rf" -> {"Rg", "Rfa"}
              [] OTHER -> {})
      [] w = "rec" ->
           (CASE F = "Lf" -> {"Lf", "Lg"}
              [] F = "Rf" -> {"Rf", "Rg"}
              [] F = "Lg" -> {"Lf"}
              [] F = "Rg" -> {"Rf"}
              [] OTHER -> {})

\* The pairs with a declaration that the host passes to compareFunctions:
\* two declarations with matching base names, declaration and definition
\* with matching base names (either side), and pairs whose names differ.
DeclSeeds ==
    {<<"Lfoo", "Rfoo">>, <<"Lasm", "Rg">>, <<"Lf", "Rintr">>,
     <<"Lasm", "Rfoo">>, <<"Lfa", "Rfoo">>}

\* The inputs of a run: a pair of modules, the control-flow-only option and
\* the seed pairs of the host.
Scenario(w, cfo, sd) == [world |-> w, cfo |-> cfo, seeds |-> sd]

Scenarios ==
    {Scenario("split", cfo, {<<"Lf", "Rf">>, <<"Lg", "Rg">>}) : cfo \in BOOLEAN}
    \cup {Scenario("split", cfo, DeclSeeds) : cfo \in BOOLEAN}
    \cup {Scenario("field", FALSE, {<<"Lf", "Rf">>}),
          Scenario("rec", FALSE, {<<"Lf", "Rf">>})}

\* ---- Result::Kind --------------------------------------------------------
EQUAL == "EQUAL"
NOT_EQUAL == "NOT_EQUAL"
UNKNOWN == "UNKNOWN"
Kinds == {EQUAL, NOT_EQUAL, UNKNOWN}

\* ---- Utils: hasSuffix / dropSuffix ---------------------------------------
Digits == {"0", "1", "2", "3", "4", "5", "6", "7", "8", "9"}

MaxOf(S) == CHOOSE m \in S : \A x \in S : x <= m

\* std::string::find_last_of: 0-based position of the last character of
\* Name that is in Chars, npos when there is none
find_last_of(Name, Chars) ==
    LET I == {i \in 1..Len(Name) : Name[i] \in Chars}
    IN IF I = {} THEN npos ELSE MaxOf(I) - 1

\* std::string::find_last_not_of
find_last_not_of(Name, Chars) ==
    LET I == {i \in 1..Len(Name) : Name[i] \notin Chars}
    IN IF I = {} THEN npos ELSE MaxOf(I) - 1

\* std::string::substr(0, n)
substr0(Name, n) == IF n >= Len(Name) THEN Name ELSE SubSeq(Name, 1, n)

hasSuffix(Name) ==
    LET dotPos == find_last_of(Name, {"."})
    IN /\ dotPos # npos
       /\ find_last_not_of(Name, Digits \cup {"."}) < dotPos

\* dropSuffix cutting at the first dot instead of the last one
dropSuffixAtFirstDot(Name) ==
    LET I == {i \in 1..Len(Name) : Name[i] = "."}
    IN IF I = {} THEN Name
       ELSE SubSeq(Name, 1, (CHOOSE m \in I : \A x \in I : m <= x) - 1)

dropSuffix(Name) == substr0(Name, find_last_of(Name, {"."}))

\* the name compareFunctions compares: the suffix is dropped when hasSuffix
\* says there is one
StrippedName(Name) == IF hasSuffix(Name) THEN dropSuffix(Name) ELSE Name

\* the local FirstFunName / SecondFunName of compareFunctions
BaseName(F) == StrippedName(getName(F))

\* ---- state -----------------------------------------------------------------
VARIABLES
    controlFlowOnly,  \* ModuleComparator::controlFlowOnly
    ComparedFuns,     \* std::map<FunPair, Result>: pair -> Result::kind
    MissingDefs,      \* std::vector<ConstFunPair>
    tryInline,        \* pair of call instructions, NoInline when empty
    calls,            \* per definition: callees of its call instructions
    stack,            \* active compareFunctions calls, innermost last
    failed,           \* an exception left compareFunctions (map::at)
    seeds,            \* the pairs the host compares
    hostCalls,        \* number of calls the host has made
    everCompared,     \* history: pairs ever passed to compareFunctions
    lastOp,           \* history: what the last step did
    sym,              \* a comparison and the comparison with the sides swapped
    rv,               \* a run of RemoveUnusedReturnValuesPass
    ut                \* an application of a helper of Utils / Result.h

vars == <<controlFlowOnly, ComparedFuns, MissingDefs, tryInline, calls, stack,
          failed, seeds, hostCalls, everCompared, lastOp, sym, rv, ut>>

\* the variables of the ModuleComparator instance under study
cmpVars == <<controlFlowOnly, ComparedFuns, MissingDefs, tryInline, calls, stack,
             failed, seeds, hostCalls, everCompared, lastOp>>

\* sym, rv and ut when no swapped comparison, no pass run and no helper is
\* under study
NoSym == [pc |-> "off"]
NoRv == [pc |-> "off"]
NoUt == [pc |-> "off"]

\* a null CallInst pointer; a call instruction is <<function, callee>>
NoCall == <<Null, Null>>

\* the empty tryInline channel {nullptr, nullptr}
NoInline == <<NoCall, NoCall>>

\* a pair of null Function pointers
NoFuns == <<Null, Null>>

\* history record of one step
Op(name, F, G) ==
    [op |-> name, F |-> F, G |-> G, returned |-> FALSE, walked |-> FALSE,
     inlined |-> FALSE, inlineFirst |-> Null, inlineSecond |-> Null,
     triedFirst |-> FALSE, triedSecond |-> FALSE,
     okFirst |-> FALSE, okSecond |-> FALSE, md |-> NoFuns,
     erased |-> NoFuns, threw |-> FALSE, simplified |-> <<>>]

Init ==
    /\ ComparedFuns = <<>>
    /\ MissingDefs = <<>>
    /\ tryInline = NoInline
    /\ \E sc \in Scenarios :
          /\ controlFlowOnly = sc.cfo
          /\ calls = [F \in Funs |-> InitialCalls(sc.world, F)]
          /\ seeds = sc.seeds
    /\ stack = <<>>
    /\ failed = FALSE
    /\ hostCalls = 0
    /\ everCompared = {}
    /\ lastOp = Op("init", Null, Null)
    /\ sym = NoSym
    /\ rv = NoRv
    /\ ut = NoUt

\* ---- map operations ------------------------------------------------------
Has(CF, key) == key \in DOMAIN CF

\* std::map::emplace: inserts only when the key is absent
Emplace(CF, key) == IF Has(CF, key) THEN CF ELSE (key :> UNKNOWN) @@ CF

\* std::map::erase(key)
Erase(CF, key) == [q \in DOMAIN CF \ {key} |-> CF[q]]

\* ComparedFuns.at(key).kind = k   (the caller checks Has first)
SetKind(CF, key, k) == [CF EXCEPT ![key] = k]

Top == stack[Len(stack)]
Pop == SubSeq(stack, 1, Len(stack) - 1)
SetTop(fr) == [stack EXCEPT ![Len(stack)] = fr]

\* ---- declaration fast path -------------------------------------------------
\* DeclKind without the NOT_EQUAL branch of lines 62-63
DeclKindNoMismatch(F, G, cfo, old) ==
    IF cfo
    THEN IF BaseName(F) = BaseName(G) THEN EQUAL ELSE NOT_EQUAL
    ELSE IF isDeclaration(F) /\ isDeclaration(G) /\ BaseName(F) = BaseName(G)
         THEN EQUAL
         ELSE old

\* DeclKind comparing the names without dropping the suffixes
DeclKindRawNames(F, G, cfo, old) ==
    IF cfo
    THEN IF getName(F) = getName(G) THEN EQUAL ELSE NOT_EQUAL
    ELSE IF isDeclaration(F) /\ isDeclaration(G) /\ getName(F) = getName(G)
         THEN EQUAL
         ELSE IF getName(F) # getName(G) THEN NOT_EQUAL ELSE old

\* DeclKind taking the branch of line 58 also under control-flow-only
DeclKindIgnoresCfo(F, G, cfo, old) ==
    IF isDeclaration(F) /\ isDeclaration(G) /\ BaseName(F) = BaseName(G)
    THEN EQUAL
    ELSE IF BaseName(F) # BaseName(G) THEN NOT_EQUAL ELSE old

\* the kind written by lines 51-72; old is the kind the entry holds
DeclKind(F, G, cfo, old) ==
    IF cfo
    THEN IF BaseName(F) = BaseName(G) THEN EQUAL ELSE NOT_EQUAL
    ELSE IF isDeclaration(F) /\ isDeclaration(G) /\ BaseName(F) = BaseName(G)
         THEN EQUAL
         ELSE IF BaseName(F) # BaseName(G) THEN NOT_EQUAL ELSE old

\* DeclMissingDefs with the two components exchanged
DeclMissingDefsSwapped(F, G, cfo) ==
    IF cfo THEN <<>>
    ELSE IF isDeclaration(F) /\ isDeclaration(G) /\ BaseName(F) = BaseName(G)
         THEN <<>>
         ELSE IF BaseName(F) # BaseName(G) THEN <<>>
              ELSE IF isDeclaration(F) THEN << <<Null, F>> >>
                   ELSE IF isDeclaration(G) THEN << <<G, Null>> >>
                        ELSE <<>>

\* DeclMissingDefs without the else-if branch of lines 69-70
DeclMissingDefsFirstOnly(F, G, cfo) ==
    IF cfo THEN <<>>
    ELSE IF isDeclaration(F) /\ isDeclaration(G) /\ BaseName(F) = BaseName(G)
         THEN <<>>
         ELSE IF BaseName(F) # BaseName(G) THEN <<>>
              ELSE IF isDeclaration(F) THEN << <<F, Null>> >>
                   ELSE <<>>

\* the MissingDefs elements pushed by lines 64-71
DeclMissingDefs(F, G, cfo) ==
    IF cfo THEN <<>>
    ELSE IF isDeclaration(F) /\ isDeclaration(G) /\ BaseName(F) = BaseName(G)
         THEN <<>>
         ELSE IF BaseName(F) # BaseName(G) THEN <<>>
              ELSE IF isDeclaration(F) THEN << <<F, Null>> >>
                   ELSE IF isDeclaration(G) THEN << <<Null, G>> >>
                        ELSE <<>>

\* a new activation of compareFunctions, about to invoke the comparator.
\* History of the loop iteration, kept until the code behind the re-run has
\* run: doneFirst, doneSecond tell on which side InlineFunction replaced
\* the call.
Frame(F, G) ==
    [FirstFun |-> F, SecondFun |-> G, pc |-> "walk", result |-> 0,
     rerun |-> FALSE, InlinedFunFirst |-> Null, InlinedFunSecond |-> Null,
     doneFirst |-> FALSE, doneSecond |-> FALSE]

\* compareFunctions from its entry to the first comparator invocation
\* (lines 28-93), or to its return on the declaration path
Enter(F, G) ==
    LET key == <<F, G>>
        CF1 == Emplace(ComparedFuns, key)
    IN /\ everCompared' = everCompared \cup {key}
       /\ IF isDeclaration(F) \/ isDeclaration(G)
          THEN LET add == DeclMissingDefs(F, G, controlFlowOnly)
               IN /\ Len(MissingDefs) + Len(add) <= MaxMissing
                  /\ ComparedFuns' =
                       SetKind(CF1, key, DeclKind(F, G, controlFlowOnly, CF1[key]))
                  /\ MissingDefs' = MissingDefs \o add
                  /\ stack' = stack
                  /\ lastOp' = [Op("call", F, G) EXCEPT !.returned = TRUE,
                                   !.md = IF add = <<>> THEN NoFuns ELSE add[1]]
          ELSE /\ ComparedFuns' = CF1
               /\ MissingDefs' = MissingDefs
               /\ stack' = Append(stack, Frame(F, G))
               /\ lastOp' = Op("call", F, G)
       /\ UNCHANGED <<sym, rv, ut, controlFlowOnly, seeds, tryInline, calls, failed>>

\* the host calls compareFunctions on a seed pair
HostCall(F, G) ==
    /\ ~failed
    /\ stack = <<>>
    /\ hostCalls < MaxHostCalls
    /\ hostCalls' = hostCalls + 1
    /\ Enter(F, G)

\* the function comparator, walking the pair on top of the stack, meets two
\* call instructions whose callees carry the same base name and have no
\* cache entry, and calls compareFunctions on the callees
NestedCall(CL, CR) ==
    /\ ~failed
    /\ stack # <<>>
    /\ Top.pc = "walk"
    /\ Len(stack) < MaxDepth
    /\ CL \in calls[Top.FirstFun]
    /\ CR \in calls[Top.SecondFun]
    /\ BaseName(CL) = BaseName(CR)
    /\ ~Has(ComparedFuns, <<CL, CR>>)
    /\ hostCalls' = hostCalls
    /\ Enter(CL, CR)

\* a call instruction of function F is named by F and its callee; cs holds
\* the callees of the call instructions of every function
CallSitesIn(cs, F) == {<<F, c>> : c \in cs[F]}
CallSites(F) == CallSitesIn(calls, F)

\* the comparator's walk ends: result r, and with a nonzero result it may
\* have recorded a pair of call sites on the tryInline channel
WalkEnd(r, ti) ==
    /\ ~failed
    /\ stack # <<>>
    /\ Top.pc = "walk"
    /\ tryInline' = IF r # 0 THEN ti ELSE tryInline
    /\ stack' = SetTop([Top EXCEPT !.pc = "post", !.result = r])
    /\ lastOp' = [Op("walkEnd", Top.FirstFun, Top.SecondFun) EXCEPT !.walked = TRUE]
    /\ UNCHANGED <<sym, rv, ut, controlFlowOnly, seeds, ComparedFuns, MissingDefs, calls, failed,
                   hostCalls, everCompared>>

\* VerdictOf with the two branches exchanged
VerdictOfSwapped(result) == IF result = 0 THEN NOT_EQUAL ELSE EQUAL

\* the kind recorded for a comparator result (lines 96-104, 208-218)
VerdictOf(result) == IF result = 0 THEN EQUAL ELSE NOT_EQUAL

\* EraseAfter without the test of the result
EraseAfterAnyResult(rerun, result) == rerun

\* line 204: the callee pair is erased when the re-comparison returned 0
EraseAfter(rerun, result) == rerun /\ result = 0

\* ErasedKey naming no pair
ErasedKeyNone(IFF, IFS) == NoFuns

\* line 205: the key passed to ComparedFuns.erase
ErasedKey(IFF, IFS) == <<IFF, IFS>>

\* the code behind a comparator invocation: after the first one lines 95-104,
\* after a re-run lines 200-218
Post ==
    /\ ~failed
    /\ stack # <<>>
    /\ Top.pc = "post"
    /\ LET key == <<Top.FirstFun, Top.SecondFun>>
           ikey == ErasedKey(Top.InlinedFunFirst, Top.InlinedFunSecond)
           er == EraseAfter(Top.rerun, Top.result)
           CF1 == IF er THEN Erase(ComparedFuns, ikey) ELSE ComparedFuns
           op == [Op("post", key[1], key[2]) EXCEPT
                     !.erased = IF er THEN ikey ELSE NoFuns]
       IN IF ~Has(CF1, key)
          THEN \* ComparedFuns.at throws std::out_of_range
               /\ ComparedFuns' = CF1
               /\ failed' = TRUE
               /\ stack' = stack
               /\ lastOp' = [op EXCEPT !.threw = TRUE]
          ELSE /\ ComparedFuns' = SetKind(CF1, key, VerdictOf(Top.result))
               /\ failed' = FALSE
               /\ stack' = SetTop([Top EXCEPT
                              !.pc = IF Top.result = 0 /\ ~Top.rerun
                                     THEN "ret" ELSE "loop",
                              !.doneFirst = FALSE, !.doneSecond = FALSE])
               /\ lastOp' = op
    /\ UNCHANGED <<sym, rv, ut, controlFlowOnly, seeds, MissingDefs, tryInline, calls, hostCalls,
                   everCompared>>

\* the while condition of line 105 is false: the loop is left
LoopExit ==
    /\ ~failed
    /\ stack # <<>>
    /\ Top.pc = "loop"
    /\ tryInline = NoInline
    /\ stack' = SetTop([Top EXCEPT !.pc = "ret"])
    /\ lastOp' = Op("loopExit", Top.FirstFun, Top.SecondFun)
    /\ UNCHANGED <<sym, rv, ut, controlFlowOnly, seeds, ComparedFuns, MissingDefs, tryInline,
                   calls, failed, hostCalls, everCompared>>

\* compareFunctions returns to its caller (line 221)
Return ==
    /\ ~failed
    /\ stack # <<>>
    /\ Top.pc = "ret"
    /\ stack' = Pop
    /\ lastOp' = [Op("return", Top.FirstFun, Top.SecondFun) EXCEPT !.returned = TRUE]
    /\ UNCHANGED <<sym, rv, ut, controlFlowOnly, seeds, ComparedFuns, MissingDefs, tryInline,
                   calls, failed, hostCalls, everCompared>>

\* findCallInst: the call instruction when it is one of Fun's, else nullptr
findCallInstIn(cs, Call, Fun) ==
    IF Call # NoCall /\ Call \in CallSitesIn(cs, Fun) THEN Call ELSE NoCall
findCallInst(Call, Fun) == findCallInstIn(calls, Call, Fun)

\* getCalledFunction of a call instruction
getCalledFunction(Call) == Call[2]

\* InlinedFun that names definitions only
InlinedFunOfDefinition(Call) ==
    IF Call = NoCall \/ isDeclaration(Call[2]) THEN Null ELSE Call[2]

\* lines 114-121: InlinedFunFirst / InlinedFunSecond
InlinedFun(Call) == IF Call = NoCall THEN Null ELSE getCalledFunction(Call)

\* TieBreak that never defers a side
TieBreakNever(mine, other, MyFun, OtherFun) == mine

\* lines 127-130 (and 131-134 with the sides swapped): the call of this
\* side after the field access tie-break
TieBreak(mine, other, MyFun, OtherFun) ==
    IF mine # NoCall /\ other # NoCall
       /\ isSimpllFieldAccessAbstraction(MyFun)
       /\ ~isSimpllFieldAccessAbstraction(OtherFun)
    THEN NoCall ELSE mine

\* MissingOf without the tests of line 148-149
MissingOfAnyDeclaration(Call) ==
    IF Call = NoCall THEN Null
    ELSE IF isDeclaration(getCalledFunction(Call))
         THEN getCalledFunction(Call) ELSE Null

\* lines 144-150: the missingDefs component of a side
MissingOf(Call) ==
    IF Call = NoCall THEN Null
    ELSE LET toInline == getCalledFunction(Call)
         IN IF isDeclaration(toInline) /\ ~isIntrinsic(toInline)
               /\ ~isSimpllAbstraction(toInline)
            THEN toInline ELSE Null

\* Attempts without the test of isDeclaration
AttemptsAnyCallee(Call) == Call # NoCall

\* lines 151-155: InlineFunction is attempted on this side
Attempts(Call) == Call # NoCall /\ ~isDeclaration(getCalledFunction(Call))

\* InlineFunction: the call instruction is replaced by the callee's body
InlineInto(cs, Fun, Callee) ==
    [cs EXCEPT ![Fun] = (cs[Fun] \ {Callee}) \cup cs[Callee]]

\* Simplified with simplifyFunction run on the inlined sides only
SimplifiedInlinedOnly(F, G, doneF, doneS) ==
    (IF doneF THEN <<F>> ELSE <<>>) \o (IF doneS THEN <<G>> ELSE <<>>)

\* lines 188-189: the functions passed to simplifyFunction, in order
Simplified(F, G, doneF, doneS) == <<F, G>>

\* Continues without the break of lines 184-187
ContinuesAlways(inlined) == TRUE

\* line 184: whether the iteration goes on to simplify and re-compare
Continues(inlined) == inlined

\* the assignment of line 182 left out: the channel keeps its call sites
TryInlineKept(ti) == ti

\* line 182: tryInline = {nullptr, nullptr}
TryInlineReset(ti) == NoInline

\* one iteration of the inlining loop (lines 105-199) up to the re-run of
\* the comparator, or to the break of line 186.  okF, okS: the results of
\* InlineFunction on the two sides, when it is attempted.
LoopIter(okF, okS) ==
    /\ ~failed
    /\ stack # <<>>
    /\ Top.pc = "loop"
    /\ tryInline # NoInline
    /\ LET F == Top.FirstFun
           G == Top.SecondFun
           key == <<F, G>>
           if0 == findCallInst(tryInline[1], F)
           is0 == findCallInst(tryInline[2], G)
           IFF == InlinedFun(if0)
           IFS == InlinedFun(is0)
           inlineFirst == TieBreak(if0, is0, IFF, IFS)
           inlineSecond == TieBreak(is0, inlineFirst, IFS, IFF)
           md == <<MissingOf(inlineFirst), MissingOf(inlineSecond)>>
           doneF == Attempts(inlineFirst) /\ okF
           doneS == Attempts(inlineSecond) /\ okS
           inlined == doneF \/ doneS
           cs1 == IF doneF THEN InlineInto(calls, F, getCalledFunction(inlineFirst))
                  ELSE calls
           cs2 == IF doneS THEN InlineInto(cs1, G, getCalledFunction(inlineSecond))
                  ELSE cs1
           simp == Simplified(F, G, doneF, doneS)
           op == [Op("loopIter", F, G) EXCEPT
                     !.inlined = inlined,
                     !.inlineFirst = InlinedFun(inlineFirst),
                     !.inlineSecond = InlinedFun(inlineSecond),
                     !.triedFirst = Attempts(inlineFirst),
                     !.triedSecond = Attempts(inlineSecond),
                     !.okFirst = doneF, !.okSecond = doneS, !.md = md]
       IN /\ (Attempts(inlineFirst) \/ ~okF)
          /\ (Attempts(inlineSecond) \/ ~okS)
          /\ md # NoFuns => Len(MissingDefs) < MaxMissing
          /\ MissingDefs' = IF md # NoFuns THEN Append(MissingDefs, md)
                            ELSE MissingDefs
          /\ calls' = cs2
          /\ tryInline' = TryInlineReset(tryInline)
          /\ IF ~Continues(inlined)
             THEN /\ stack' = SetTop([Top EXCEPT !.pc = "ret"])
                  /\ ComparedFuns' = ComparedFuns
                  /\ failed' = FALSE
                  /\ lastOp' = op
             ELSE IF ~Has(ComparedFuns, key)
                  THEN /\ stack' = stack
                       /\ ComparedFuns' = ComparedFuns
                       /\ failed' = TRUE
                       /\ lastOp' = [op EXCEPT !.simplified = simp, !.threw = TRUE]
                  ELSE /\ stack' = SetTop([Top EXCEPT !.pc = "walk", !.rerun = TRUE,
                                              !.InlinedFunFirst = IFF,
                                              !.InlinedFunSecond = IFS,
                                              !.doneFirst = doneF,
                                              !.doneSecond = doneS])
                       /\ ComparedFuns' = SetKind(ComparedFuns, key, UNKNOWN)
                       /\ failed' = FALSE
                       /\ lastOp' = [op EXCEPT !.simplified = simp]
    /\ UNCHANGED <<sym, rv, ut, controlFlowOnly, seeds, hostCalls, everCompared>>

\* the call sites the comparator can put on the tryInline channel
InlineChoices ==
    IF stack = <<>> THEN {NoInline}
    ELSE (CallSites(Top.FirstFun) \cup {NoCall})
             \X (CallSites(Top.SecondFun) \cup {NoCall})

Next ==
    \/ \E p \in seeds : HostCall(p[1], p[2])
    \/ \E CL \in FunsFirst, CR \in FunsSecond : NestedCall(CL, CR)
    \/ \E r \in {0, 1}, ti \in InlineChoices : WalkEnd(r, ti)
    \/ Post
    \/ LoopExit
    \/ Return
    \/ \E okF, okS \in BOOLEAN : LoopIter(okF, okS)

Spec == Init /\ [][Next]_vars

\* ---- a comparison and its mirror image ------------------------------------
\* compareFunctions as a function of the state of one ModuleComparator
\* instance.  A run is the state of a fresh instance during one host call:
\* the compared pair, the option, the cache CF, the list MD, the call
\* instructions cs, the tryInline channel ti and the position pc.

\* lines 28-93: the call up to the first comparator invocation or, on the
\* declaration path, to its return
RunEnter(w, cfo, F, G) ==
    LET key == <<F, G>>
        CF1 == Emplace(<<>>, key)
        base == [First |-> F, Second |-> G, cfo |-> cfo, CF |-> CF1, MD |-> <<>>,
                 cs |-> [X \in Funs |-> InitialCalls(w, X)], ti |-> NoInline,
                 pc |-> "walk", result |-> 0, rerun |-> FALSE,
                 IFF |-> Null, IFS |-> Null]
    IN IF isDeclaration(F) \/ isDeclaration(G)
       THEN [base EXCEPT !.CF = SetKind(CF1, key, DeclKind(F, G, cfo, CF1[key])),
                         !.MD = DeclMissingDefs(F, G, cfo),
                         !.pc = "done"]
       ELSE base

\* lines 35-88 in a call the comparator makes on a pair of callees of which
\* one at least is a declaration
RunNested(run, CL, CR) ==
    LET key == <<CL, CR>>
        CF1 == Emplace(run.CF, key)
    IN [run EXCEPT !.CF = SetKind(CF1, key, DeclKind(CL, CR, run.cfo, CF1[key])),
                   !.MD = @ \o DeclMissingDefs(CL, CR, run.cfo)]

\* line 93 / 199: the comparator returns r and may have set tryInline
RunWalkEnd(run, r, ti) ==
    [run EXCEPT !.ti = IF r # 0 THEN ti ELSE @, !.result = r, !.pc = "post"]

\* lines 95-104 and 200-218
RunPost(run) ==
    LET key == <<run.First, run.Second>>
        CF1 == IF EraseAfter(run.rerun, run.result)
               THEN Erase(run.CF, ErasedKey(run.IFF, run.IFS)) ELSE run.CF
    IN IF ~Has(CF1, key)
       THEN [run EXCEPT !.CF = CF1, !.pc = "threw"]
       ELSE [run EXCEPT !.CF = SetKind(CF1, key, VerdictOf(run.result)),
                        !.pc = IF run.result = 0 /\ ~run.rerun
                               THEN "done" ELSE "loop"]

\* lines 105-199: the loop condition and one iteration
RunLoop(run, okF, okS) ==
    LET F == run.First
        G == run.Second
        key == <<F, G>>
        if0 == findCallInstIn(run.cs, run.ti[1], F)
        is0 == findCallInstIn(run.cs, run.ti[2], G)
        IFF == InlinedFun(if0)
        IFS == InlinedFun(is0)
        inlineFirst == TieBreak(if0, is0, IFF, IFS)
        inlineSecond == TieBreak(is0, inlineFirst, IFS, IFF)
        md == <<MissingOf(inlineFirst), MissingOf(inlineSecond)>>
        doneF == Attempts(inlineFirst) /\ okF
        doneS == Attempts(inlineSecond) /\ okS
        cs1 == IF doneF THEN InlineInto(run.cs, F, getCalledFunction(inlineFirst))
               ELSE run.cs
        cs2 == IF doneS THEN InlineInto(cs1, G, getCalledFunction(inlineSecond))
               ELSE cs1
        r1 == [run EXCEPT !.MD = IF md # NoFuns THEN Append(@, md) ELSE @,
                          !.cs = cs2, !.ti = TryInlineReset(run.ti)]
    IN IF run.ti = NoInline THEN [run EXCEPT !.pc = "done"]
       ELSE IF ~Continues(doneF \/ doneS) THEN [r1 EXCEPT !.pc = "done"]
       ELSE IF ~Has(run.CF, key) THEN [r1 EXCEPT !.pc = "threw"]
       ELSE [r1 EXCEPT !.CF = SetKind(run.CF, key, UNKNOWN), !.pc = "walk",
                       !.rerun = TRUE, !.IFF = IFF, !.IFS = IFS]

\* the instance under study is not used
CmpOff ==
    /\ controlFlowOnly = FALSE
    /\ ComparedFuns = <<>>
    /\ MissingDefs = <<>>
    /\ tryInline = NoInline
    /\ calls = [F \in Funs |-> {}]
    /\ seeds = {}
    /\ stack = <<>>
    /\ failed = FALSE
    /\ hostCalls = 0
    /\ everCompared = {}
    /\ lastOp = Op("off", Null, Null)

\* two fresh instances: A is to compare (F, G), B is given the two modules
\* in the other order and is to compare (G, F)
SymInit ==
    /\ CmpOff
    /\ rv = NoRv
    /\ ut = NoUt
    /\ \E w \in {"split", "field", "rec"}, cfo \in BOOLEAN,
          F \in FunsFirst, G \in FunsSecond :
          sym = [pc |-> "idle", w |-> w, cfo |-> cfo, F |-> F, G |-> G]

\* the host calls compareFunctions on both instances
SymCall ==
    /\ sym.pc = "idle"
    /\ sym' = [pc |-> "run",
               A |-> RunEnter(sym.w, sym.cfo, sym.F, sym.G),
               B |-> RunEnter(sym.w, sym.cfo, sym.G, sym.F)]
    /\ UNCHANGED <<cmpVars, rv, ut>>

\* the comparators, which behave alike, call compareFunctions on a pair of
\* callees with a declaration: A's on (CL, CR), B's on (CR, CL)
SymNested(CL, CR) ==
    /\ sym.pc = "run"
    /\ sym.A.pc = "walk"
    /\ CL \in sym.A.cs[sym.A.First]
    /\ CR \in sym.A.cs[sym.A.Second]
    /\ isDeclaration(CL) \/ isDeclaration(CR)
    /\ ~Has(sym.A.CF, <<CL, CR>>)
    /\ Len(sym.A.MD) < MaxMissing
    /\ sym' = [sym EXCEPT !.A = RunNested(@, CL, CR),
                          !.B = IF @.pc = "walk" THEN RunNested(@, CR, CL) ELSE @]
    /\ UNCHANGED <<cmpVars, rv, ut>>

\* both walks end with result r; A's comparator names the call sites ti,
\* B's the same call sites in the other order
SymWalkEnd(r, ti) ==
    /\ sym.pc = "run"
    /\ sym.A.pc = "walk"
    /\ sym' = [sym EXCEPT !.A = RunWalkEnd(@, r, ti),
                          !.B = IF @.pc = "walk"
                                THEN RunWalkEnd(@, r, <<ti[2], ti[1]>>) ELSE @]
    /\ UNCHANGED <<cmpVars, rv, ut>>

SymPost ==
    /\ sym.pc = "run"
    /\ sym.A.pc = "post"
    /\ sym' = [sym EXCEPT !.A = RunPost(@),
                          !.B = IF @.pc = "post" THEN RunPost(@) ELSE @]
    /\ UNCHANGED <<cmpVars, rv, ut>>

\* okF, okS: the results of InlineFunction on the call sites of F and of G
SymLoop(okF, okS) ==
    /\ sym.pc = "run"
    /\ sym.A.pc = "loop"
    /\ Len(RunLoop(sym.A, okF, okS).MD) <= MaxMissing
    /\ sym' = [sym EXCEPT !.A = RunLoop(@, okF, okS),
                          !.B = IF @.pc = "loop" THEN RunLoop(@, okS, okF) ELSE @]
    /\ UNCHANGED <<cmpVars, rv, ut>>

\* the call sites A's comparator can put on its tryInline channel
SymInlineChoices ==
    IF sym.pc # "run" THEN {NoInline}
    ELSE (CallSitesIn(sym.A.cs, sym.A.First) \cup {NoCall})
            \X (CallSitesIn(sym.A.cs, sym.A.Second) \cup {NoCall})

SymNext ==
    \/ SymCall
    \/ \E CL \in FunsFirst, CR \in FunsSecond : SymNested(CL, CR)
    \/ \E r \in {0, 1}, ti \in SymInlineChoices : SymWalkEnd(r, ti)
    \/ SymPost
    \/ \E okF, okS \in BOOLEAN : SymLoop(okF, okS)

SymSpec == SymInit /\ [][SymNext]_vars

\* ---- RemoveUnusedReturnValuesPass ---------------------------------------------
\* Attribute kinds that are invalid for void functions
badAttributes ==
    {"ByVal", "InAlloca", "Nest", "NoAlias", "NoCapture", "NonNull", "ReadNone",
     "ReadOnly", "SExt", "StructRet", "ZExt", "Dereferenceable",
     "DereferenceableOrNull"}

\* An AttributeList: the attribute kinds at the return index, at the
\* function index and at the parameter indices.
AttrLists ==
    {[ret |-> {"ZExt", "InReg"}, fn |-> {"NoUnwind", "ReadOnly"},
      par |-> {"NoCapture"}],
     [ret |-> {"NonNull", "NoAlias"}, fn |-> {"Cold"}, par |-> {"ByVal", "InReg"}]}

\* A use of a function Fun: a call or an invoke instruction, or another
\* user.  callee: Fun is the called function (otherwise it is an operand);
\* used: the result of the instruction has a use.  from: the instruction a
\* created instruction replaces (history).
NoAttrs == [ret |-> {}, fn |-> {}, par |-> {}]

NoFrom == [kind |-> "none", attrs |-> NoAttrs, cc |-> "C", tail |-> FALSE]

Use(kind, callee, used, al, cc, tail) ==
    [kind |-> kind, callee |-> callee, used |-> used, attrs |-> al, cc |-> cc,
     tail |-> tail, from |-> NoFrom]

RvUses ==
    {Use("call", TRUE, FALSE, al, "fast", TRUE) : al \in AttrLists}
    \cup {Use("invoke", TRUE, FALSE, al, "C", FALSE) : al \in AttrLists}
    \cup {Use("call", TRUE, TRUE, NoAttrs, "C", FALSE),
          Use("call", FALSE, FALSE, NoAttrs, "C", FALSE),
          Use("other", FALSE, FALSE, NoAttrs, "C", FALSE)}

\* the sequences over S of length at most n
SeqUpTo(S, n) == UNION {[1..k -> S] : k \in 0..n}

\* A function of the module.  reach: Main calls it transitively;
\* otherVoid: the function of the same name in the other module returns
\* void; inModule: it is in the module's function list; variantOf: the id
\* of the function it was created from (history).  body: "none" for a
\* declaration, "ret" for basic blocks whose return instructions return a
\* value, "retvoid" when they are ret void; hadBody: the function was a
\* definition when the pass started (history).
Fun(id, name, intrinsic, linkage, ret, reach, otherVoid, al, cc, uses) ==
    [id |-> id, name |-> name, intrinsic |-> intrinsic, linkage |-> linkage,
     ret |-> ret, reach |-> reach, otherVoid |-> otherVoid, attrs |-> al,
     cc |-> cc, uses |-> uses, inModule |-> TRUE, variantOf |-> 0,
     body |-> "none", hadBody |-> FALSE]

\* the function F with the basic block list b
WithBody(F, b) == [F EXCEPT !.body = b, !.hadBody = (b # "none")]

\* the basic block lists a function of the module may have: an intrinsic is
\* a declaration
Bodies(F) == IF F.intrinsic THEN {"none"} ELSE {"none", "ret"}

\* the functions f the module may hold in first place
RvFirstFuns ==
    {Fun(1, "f", FALSE, "external", "int", TRUE, ov, al, "fast", us) :
        ov \in BOOLEAN, al \in AttrLists, us \in SeqUpTo(RvUses, MaxUses)}
    \cup {Fun(1, "f", intr, lk, rt, rc, TRUE, NoAttrs, "C", us) :
             intr \in BOOLEAN, lk \in {"external", "internal"},
             rt \in {"int", "void"}, rc \in BOOLEAN,
             us \in SeqUpTo({Use("call", TRUE, FALSE, NoAttrs, "C", FALSE)}, 1)}

\* the functions g the module may hold in second place
RvSecondFuns ==
    {Fun(2, "g", FALSE, "external", "int", TRUE, TRUE, NoAttrs, "C",
         <<Use("call", TRUE, FALSE, NoAttrs, "C", TRUE)>>),
     Fun(2, "g", FALSE, "external", "void", TRUE, TRUE, NoAttrs, "C", <<>>)}

\* lines 44-54: the function is skipped
Skipped(F, Main) ==
    \/ F.intrinsic
    \/ F.linkage # "external"
    \/ F.ret = "void"
    \/ Main /\ ~F.reach

\* can_replace without the test of use_empty (lines 77-79, 94-96)
canReplaceAnyResult(F) ==
    \A i \in 1..Len(F.uses) :
       F.uses[i].kind \in {"call", "invoke"} /\ F.uses[i].callee

\* lines 56-101: can_replace after the loop over the uses
canReplace(F) ==
    \A i \in 1..Len(F.uses) :
       /\ F.uses[i].kind \in {"call", "invoke"}
       /\ F.uses[i].callee
       /\ ~F.uses[i].used

\* StripBad leaving the function index alone
StripBadReturnOnly(al) == [al EXCEPT !.ret = @ \ badAttributes]

\* lines 118-121, 175-181, 211-217: removeAttribute of every bad kind at
\* the return index and at the function index
StripBad(al) ==
    [al EXCEPT !.ret = @ \ badAttributes, !.fn = @ \ badAttributes]

\* lines 134-145: the basic blocks of F are moved to Fun_New and their
\* return instructions are replaced by ret void
SplicedBody(body) == IF body = "ret" THEN "retvoid" ELSE body

\* lines 105-145: Fun_New, a void function with the parameters, linkage,
\* attributes, calling convention, name and basic blocks of F
NewFun(F, id) ==
    [F EXCEPT !.id = id, !.ret = "void", !.attrs = StripBad(F.attrs),
              !.uses = <<>>, !.variantOf = F.id, !.body = SplicedBody(F.body)]

\* lines 158-184 and 191-218: the instruction created in place of u
NewUse(u) ==
    [kind |-> u.kind, callee |-> TRUE, used |-> FALSE,
     attrs |-> StripBad(u.attrs), cc |-> u.cc,
     tail |-> IF u.kind = "call" THEN u.tail ELSE FALSE,
     from |-> [kind |-> u.kind, attrs |-> u.attrs, cc |-> u.cc, tail |-> u.tail]]

\* Removes for a pass that deletes nothing
RemovesNothing(functionsToDelete, id) == FALSE

\* lines 237-238: the function is removed from the module
Removes(functionsToDelete, id) ==
    \E j \in 1..Len(functionsToDelete) : functionsToDelete[j] = id

\* the module before the pass runs: functions f and g; Main is given or null
RvInit ==
    /\ CmpOff
    /\ sym = NoSym
    /\ ut = NoUt
    /\ \E f \in RvFirstFuns, g \in RvSecondFuns, Main \in BOOLEAN :
          \E b \in Bodies(f) :
             rv = [pc |-> "loop", Main |-> Main, funs |-> <<WithBody(f, b), g>>,
                   i |-> 1, functionsToDelete |-> <<>>]

\* One iteration of the loop over the functions of the module (lines
\* 43-234) on the function at position rv.i.  The loop of lines 157-226
\* erases the instruction that holds the use it stands on and then advances
\* from that use, which reads freed memory: besides running to the end of
\* the use list it may stop after n uses or fail (crash).
RvVisit(n, crash) ==
    /\ rv.pc = "loop"
    /\ rv.i <= Len(rv.funs)
    /\ LET F == rv.funs[rv.i]
           k == Len(F.uses)
       IN IF Skipped(F, rv.Main) \/ ~canReplace(F)
          THEN /\ n = 0 /\ ~crash
               /\ rv' = [rv EXCEPT !.i = @ + 1]
          ELSE /\ n \in 0..k
               /\ (k = 0) => (n = 0 /\ ~crash)
               /\ (k > 0) => n >= 1
               /\ LET Fun_New == [NewFun(F, Len(rv.funs) + 1) EXCEPT
                                     !.uses = [j \in 1..n |-> NewUse(F.uses[j])]]
                      Old == [F EXCEPT !.name = "", !.body = "none",
                                       !.uses = SubSeq(F.uses, n + 1, k)]
                      fs == Append([rv.funs EXCEPT ![rv.i] = Old], Fun_New)
                  IN IF crash
                     THEN rv' = [rv EXCEPT !.funs = fs, !.pc = "crashed"]
                     ELSE rv' = [rv EXCEPT !.funs = fs, !.i = @ + 1,
                                    !.functionsToDelete = Append(@, F.id)]
    /\ UNCHANGED <<cmpVars, sym, ut>>

\* lines 236-240: the replaced functions are removed, the pass returns
RvDelete ==
    /\ rv.pc = "loop"
    /\ rv.i > Len(rv.funs)
    /\ rv' = [rv EXCEPT
                !.funs = [j \in 1..Len(rv.funs) |->
                            IF Removes(rv.functionsToDelete, rv.funs[j].id)
                            THEN [rv.funs[j] EXCEPT !.inModule = FALSE]
                            ELSE rv.funs[j]],
                !.pc = "done"]
    /\ UNCHANGED <<cmpVars, sym, ut>>

RvNext ==
    \/ \E n \in 0..MaxUses, crash \in BOOLEAN : RvVisit(n, crash)
    \/ RvDelete

RvSpec == RvInit /\ [][RvNext]_vars

\* ---- hasSuffix / dropSuffix applied to names ------------------------------
\* the characters of the names: a letter, a digit and the dot
Alphabet == {"a", "1", "."}

\* all names of at most n characters
Names(n) == UNION {[1..k -> Alphabet] : k \in 0..n}

\* the names of the other declaration of a compared pair
MaxOtherLen == 2

\* the verdict of the declaration fast path on two declarations with the
\* names First and Second
NameVerdict(First, Second) ==
    IF StrippedName(First) = StrippedName(Second) THEN EQUAL ELSE NOT_EQUAL

NameInit ==
    /\ CmpOff
    /\ sym = NoSym
    /\ rv = NoRv
    /\ \E Name \in Names(MaxLen) : ut = [pc |-> "name", Name |-> Name]

\* hasSuffix(FirstFunName)
CallHasSuffix ==
    /\ ut.pc = "name"
    /\ ut' = [pc |-> "has", Name |-> ut.Name, result |-> hasSuffix(ut.Name)]
    /\ UNCHANGED <<cmpVars, sym, rv>>

\* FirstFunName = dropSuffix(FirstFunName), under the guard of its caller
CallDropSuffix ==
    /\ ut.pc = "has"
    /\ ut.result
    /\ ut' = [pc |-> "dropped", Name |-> ut.Name, Base |-> dropSuffix(ut.Name)]
    /\ UNCHANGED <<cmpVars, sym, rv>>

\* compareFunctions on two declarations named ut.Name and Other
CallCompareNames(Other) ==
    /\ ut.pc = "name"
    /\ ut' = [pc |-> "compared", Name |-> ut.Name, Other |-> Other,
              kind |-> NameVerdict(ut.Name, Other)]
    /\ UNCHANGED <<cmpVars, sym, rv>>

NameNext ==
    \/ CallHasSuffix
    \/ CallDropSuffix
    \/ \E Other \in Names(MaxOtherLen) : CallCompareNames(Other)

NameSpec == NameInit /\ [][NameNext]_vars

\* ---- getCallStack ---------------------------------------------------------
\* the functions of the module searched for a call stack
StackFuns == {"A", "B", "C"}

\* total number of function references in the instructions of the module
MaxRefs == 3

\* One function occurring in an instruction (an element of calledFuns, in
\* the order in which the loops of lines 94-109 reach it): the function
\* and whether the instruction has a debug location.
Refs == [fun : StackFuns, loc : BOOLEAN]

\* the sequences over S of length exactly n
SeqOfLen(S, n) == [1..n -> S]

\* The modules: every function with the references of its instructions,
\* at most n references in the whole module.
StackModules(n) ==
    UNION {{[F \in StackFuns |->
               CASE F = "A" -> a [] F = "B" -> b [] OTHER -> c] :
              a \in SeqOfLen(Refs, ka), b \in SeqOfLen(Refs, kb),
              c \in SeqOfLen(Refs, kc)} :
           <<ka, kb, kc>> \in {t \in (0..n) \X (0..n) \X (0..n) :
                                 t[1] + t[2] + t[3] <= n}}

\* getFileForFun: every function of the module is in a file of its own
getFileForFun(F) == F

\* CallInfo(called, getFileForFun(Src), loc.getLine()); the line of the
\* i-th reference of a function is i
CallInfo(called, file, line) == [fun |-> called, file |-> file, line |-> line]

\* Follows for a search that does not look at the debug location
FollowsWithoutLoc(r, visited) == r.fun \notin visited

\* lines 110-113: the reference is followed
Follows(r, visited) == r.fun \notin visited /\ r.loc

RECURSIVE searchCallStackRec(_, _, _, _, _)
RECURSIVE searchCallStackFrom(_, _, _, _, _, _)

\* lines 94-131 from the i-th reference of Src on; the result holds the
\* return value and the two reference parameters
searchCallStackFrom(M, Src, Dest, i, callStack, visited) ==
    IF i > Len(M[Src])
    THEN [found |-> FALSE, callStack |-> callStack, visited |-> visited]
    ELSE LET called == M[Src][i].fun
         IN IF ~Follows(M[Src][i], visited)
            THEN searchCallStackFrom(M, Src, Dest, i + 1, callStack, visited)
            ELSE LET pushed == Append(callStack,
                                      CallInfo(called, getFileForFun(Src), i))
                 IN IF called = Dest
                    THEN [found |-> TRUE, callStack |-> pushed,
                          visited |-> visited]
                    ELSE LET sub == searchCallStackRec(M, called, Dest, pushed,
                                                       visited)
                         IN IF sub.found THEN sub
                            ELSE searchCallStackFrom(
                                    M, Src, Dest, i + 1,
                                    SubSeq(sub.callStack, 1,
                                           Len(sub.callStack) - 1),
                                    sub.visited)

searchCallStackRec(M, Src, Dest, callStack, visited) ==
    searchCallStackFrom(M, Src, Dest, 1, callStack, visited \cup {Src})

getCallStack(M, Src, Dest) ==
    searchCallStackRec(M, Src, Dest, <<>>, {}).callStack

StackInit ==
    /\ CmpOff
    /\ sym = NoSym
    /\ rv = NoRv
    /\ \E M \in StackModules(MaxRefs), Src \in StackFuns, Dest \in StackFuns :
          ut = [pc |-> "module", M |-> M, Src |-> Src, Dest |-> Dest]

\* CallStack cs = getCallStack(Src, Dest)
CallGetCallStack ==
    /\ ut.pc = "module"
    /\ ut' = [pc |-> "stack", M |-> ut.M, Src |-> ut.Src, Dest |-> ut.Dest,
              callStack |-> getCallStack(ut.M, ut.Src, ut.Dest)]
    /\ UNCHANGED <<cmpVars, sym, rv>>

StackNext == CallGetCallStack

StackSpec == StackInit /\ [][StackNext]_vars

\* ---- hasSideEffect --------------------------------------------------------
\* the functions of the module examined for side effects
EffectFuns == {"P", "Q", "R"}

\* total number of instructions in the definitions of the module
MaxInsts == 2

\* Function::getIntrinsicID of a declaration
IntrinsicIDs ==
    {"not_intrinsic", "dbg_declare", "dbg_value", "expect", "memcpy"}

\* The instructions hasSideEffect tells apart: a store, a call whose
\* called function is null (indirect call), a call of a function.
Insts ==
    {[op |-> "store", called |-> Null], [op |-> "call", called |-> Null]}
    \cup {[op |-> "call", called |-> F] : F \in EffectFuns}

\* a declaration with the intrinsic ID id; a definition with instructions
Declaration(id) == [isDeclaration |-> TRUE, id |-> id, insts |-> <<>>]
Definition(insts) ==
    [isDeclaration |-> FALSE, id |-> "not_intrinsic", insts |-> insts]

\* the functions with exactly k instructions (a declaration has none)
FunsOfSize(k) ==
    {Definition(is) : is \in SeqOfLen(Insts, k)}
    \cup (IF k = 0 THEN {Declaration(id) : id \in IntrinsicIDs} ELSE {})

\* the modules with at most n instructions
EffectModules(n) ==
    UNION {{[F \in EffectFuns |->
               CASE F = "P" -> p [] F = "Q" -> q [] OTHER -> r] :
              p \in FunsOfSize(kp), q \in FunsOfSize(kq), r \in FunsOfSize(kr)} :
           <<kp, kq, kr>> \in {t \in (0..n) \X (0..n) \X (0..n) :
                                 t[1] + t[2] + t[3] <= n}}

\* DeclarationHasSideEffect for a test that knows no harmless intrinsic
DeclarationAlwaysHasSideEffect(id) == TRUE

\* lines 146-148: the value returned for a declaration
DeclarationHasSideEffect(id) == id \notin {"dbg_declare", "dbg_value", "expect"}

RECURSIVE hasSideEffectRec(_, _, _)
RECURSIVE hasSideEffectFrom(_, _, _, _)

\* lines 151-166 from the i-th instruction of F on; the result holds the
\* return value and the reference parameter Visited
hasSideEffectFrom(M, F, i, Visited) ==
    IF i > Len(M[F].insts) THEN [result |-> FALSE, Visited |-> Visited]
    ELSE LET Inst == M[F].insts[i]
         IN IF Inst.op = "store" THEN [result |-> TRUE, Visited |-> Visited]
            ELSE IF Inst.called = Null
            THEN [result |-> TRUE, Visited |-> Visited]
            ELSE IF Inst.called \in Visited
            THEN hasSideEffectFrom(M, F, i + 1, Visited)
            ELSE LET sub == hasSideEffectRec(M, Inst.called, Visited)
                 IN IF sub.result THEN sub
                    ELSE hasSideEffectFrom(M, F, i + 1, sub.Visited)

\* hasSideEffect(Fun, Visited), lines 144-167
hasSideEffectRec(M, F, Visited) ==
    IF M[F].isDeclaration
    THEN [result |-> DeclarationHasSideEffect(M[F].id), Visited |-> Visited]
    ELSE hasSideEffectFrom(M, F, 1, Visited \cup {F})

\* hasSideEffect(Fun), lines 170-173
hasSideEffect(M, F) == hasSideEffectRec(M, F, {}).result

EffectInit ==
    /\ CmpOff
    /\ sym = NoSym
    /\ rv = NoRv
    /\ \E M \in EffectModules(MaxInsts), F \in EffectFuns :
          ut = [pc |-> "module", M |-> M, Fun |-> F]

\* bool e = hasSideEffect(Fun)
CallHasSideEffect ==
    /\ ut.pc = "module"
    /\ ut' = [pc |-> "effect", M |-> ut.M, Fun |-> ut.Fun,
              result |-> hasSideEffect(ut.M, ut.Fun)]
    /\ UNCHANGED <<cmpVars, sym, rv>>

EffectNext == CallHasSideEffect

EffectSpec == EffectInit /\ [][EffectNext]_vars

\* ---- FunctionInfo::addCall -------------------------------------------------
\* number of addCall operations on one FunctionInfo
MaxCalls == 3

\* the call lines are 1..MaxLine
MaxLine == 3

\* Callee->getName().str() of the functions that are called
CalleeNames == {<<"a">>, <<"a", "b">>, <<"b">>}

\* char comparison of the characters used in the names
CharLess(c, d) == c = "a" /\ d = "b"

\* std::string operator<: lexicographic order
StringLess(a, b) ==
    \E k \in 1..(Len(a) + 1) :
       /\ k <= Len(b)
       /\ \A i \in 1..(k - 1) : a[i] = b[i]
       /\ k = Len(a) + 1 \/ CharLess(a[k], b[k])

\* CallInfo::operator< that also looks at the line
LessByFunAndLine(Lhs, Rhs) ==
    \/ StringLess(Lhs.fun, Rhs.fun)
    \/ Lhs.fun = Rhs.fun /\ Lhs.line < Rhs.line

\* CallInfo::operator<
Less(Lhs, Rhs) == StringLess(Lhs.fun, Rhs.fun)

\* std::set<CallInfo>::insert: v is added unless an element equivalent to
\* it under operator< is in the set
SetInsert(S, v) ==
    IF \E e \in S : ~Less(e, v) /\ ~Less(v, e) THEN S ELSE S \cup {v}

\* FunctionInfo(name, file, line): calls is empty.  History: n counts the
\* addCall operations, prev is calls before the last one, last the CallInfo
\* it was given, first the lines of the first addCall of every callee.
CallsInit ==
    /\ CmpOff
    /\ sym = NoSym
    /\ rv = NoRv
    /\ ut = [pc |-> "info", file |-> "f.c", calls |-> {}, n |-> 0, prev |-> {},
             last |-> CallInfo(<<>>, "", 0), first |-> {}]

\* addCall(Callee, l)
addCall(Callee, l) ==
    /\ ut.pc = "info"
    /\ ut.n < MaxCalls
    /\ LET v == CallInfo(Callee, ut.file, l)
       IN ut' = [ut EXCEPT !.calls = SetInsert(@, v), !.n = @ + 1,
                           !.prev = ut.calls, !.last = v,
                           !.first = IF \E e \in @ : e.fun = Callee THEN @
                                     ELSE @ \cup {v}]
    /\ UNCHANGED <<cmpVars, sym, rv>>

CallsNext == \E Callee \in CalleeNames, l \in 1..MaxLine : addCall(Callee, l)

CallsSpec == CallsInit /\ [][CallsNext]_vars

\* ---- properties ------------------------------------------------------------
\* the pair of the compareFunctions call made by the step
IsCall == lastOp'.op = "call"
CallF == lastOp'.F
CallG == lastOp'.G
CallKey == <<CallF, CallG>>
TopKey == <<Top.FirstFun, Top.SecondFun>>
BothDecl(F, G) == isDeclaration(F) /\ isDeclaration(G)
OneDecl(F, G) == isDeclaration(F) # isDeclaration(G)
SameBase(F, G) == BaseName(F) = BaseName(G)

\* the pairs of the active compareFunctions calls
ActivePairs == {<<stack[i].FirstFun, stack[i].SecondFun>> : i \in 1..Len(stack)}

\* C1 (as stated): every pair ever passed to compareFunctions has an entry
\* in ComparedFuns (a map holds at most one entry per key); stated for the
\* pairs whose comparison has returned, in runs without an exception.
C1_EveryComparedPairCached ==
    ~failed => \A p \in everCompared \ ActivePairs : Has(ComparedFuns, p)

\* C1 (amended): a call of compareFunctions leaves its pair with an entry,
\* and an entry disappears only as the callee pair erased by line 205 after
\* a re-comparison that returned 0.
C1_CachedUntilInvalidated ==
    [][/\ IsCall => Has(ComparedFuns', CallKey)
       /\ \A p \in DOMAIN ComparedFuns :
            ~Has(ComparedFuns', p) =>
               /\ stack # <<>>
               /\ Top.pc = "post" /\ Top.rerun /\ Top.result = 0
               /\ p = <<Top.InlinedFunFirst, Top.InlinedFunSecond>>]_vars

\* C1 witness: a pair that was compared has lost its entry to line 205
C1_Witness ==
    /\ ~failed
    /\ lastOp.op = "post"
    /\ lastOp.erased \in everCompared \ ActivePairs
    /\ ~Has(ComparedFuns, lastOp.erased)

\* the step turns the kind of pair p into EQUAL
BecomesEqual(p) ==
    /\ Has(ComparedFuns', p) /\ ComparedFuns'[p] = EQUAL
    /\ ~(Has(ComparedFuns, p) /\ ComparedFuns[p] = EQUAL)

\* the step is the code behind a walk of pair p that returned 0
AfterEqualWalk(p) ==
    /\ stack # <<>>
    /\ Top.pc = "post" /\ Top.result = 0
    /\ TopKey = p

\* C2 (as stated): a pair is recorded EQUAL only by the call that walked
\* that pair to completion with result 0.
C2_EqualOnlyAfterWalk ==
    [][\A p \in DOMAIN ComparedFuns' : BecomesEqual(p) => AfterEqualWalk(p)]_vars

\* C2 (amended): a pair of two definitions is recorded EQUAL only by the
\* call that walked that pair to completion with result 0; a pair with a
\* declaration is recorded EQUAL by its own call, without a walk, when the
\* base names match.
C2_EqualOnlyAfterWalkOrByName ==
    [][\A p \in DOMAIN ComparedFuns' :
         BecomesEqual(p) =>
            \/ AfterEqualWalk(p) /\ ~isDeclaration(p[1]) /\ ~isDeclaration(p[2])
            \/ /\ IsCall /\ CallKey = p
               /\ isDeclaration(p[1]) \/ isDeclaration(p[2])
               /\ SameBase(p[1], p[2])]_vars

\* C2 witness: a pair of definitions recorded EQUAL behind its walk
C2_Witness ==
    /\ lastOp.op = "post"
    /\ ~isDeclaration(lastOp.F) /\ ~isDeclaration(lastOp.G)
    /\ Has(ComparedFuns, <<lastOp.F, lastOp.G>>)
    /\ ComparedFuns[<<lastOp.F, lastOp.G>>] = EQUAL

\* C3 (as stated): an entry that holds EQUAL or NOT_EQUAL never changes to
\* a different kind.
C3_VerdictsTerminal ==
    [][\A p \in DOMAIN ComparedFuns :
         (ComparedFuns[p] \in {EQUAL, NOT_EQUAL} /\ Has(ComparedFuns', p))
            => ComparedFuns'[p] = ComparedFuns[p]]_vars

\* C4 (as stated): when no compareFunctions call is active, no entry has
\* kind UNKNOWN.
C4_NoUnknownWhenIdle ==
    stack = <<>> => \A p \in DOMAIN ComparedFuns : ComparedFuns[p] # UNKNOWN

\* C4 (amended): when no compareFunctions call is active, the entries of
\* kind UNKNOWN are those of the pairs of one declaration and one definition
\* with matching base names, compared with control-flow-only off.
C4_UnknownWhenIdleIsMissingDef ==
    stack = <<>> =>
       \A p \in DOMAIN ComparedFuns :
          ComparedFuns[p] = UNKNOWN =>
             /\ ~controlFlowOnly
             /\ OneDecl(p[1], p[2])
             /\ SameBase(p[1], p[2])

\* C4 witness: all calls have returned, both a pair with a verdict and a
\* pair left UNKNOWN are in the cache
C4_Witness ==
    /\ stack = <<>>
    /\ \E p \in DOMAIN ComparedFuns : ComparedFuns[p] = UNKNOWN
    /\ \E p \in DOMAIN ComparedFuns : ComparedFuns[p] = NOT_EQUAL

\* C5 (as stated): a call on a pair whose entry holds a verdict returns at
\* once, invokes no comparator and leaves ComparedFuns, MissingDefs and
\* tryInline unchanged.
C5_ReentryReturnsCached ==
    [][(/\ IsCall
        /\ Has(ComparedFuns, CallKey)
        /\ ComparedFuns[CallKey] \in {EQUAL, NOT_EQUAL})
          => /\ stack' = stack
             /\ ComparedFuns' = ComparedFuns
             /\ MissingDefs' = MissingDefs
             /\ tryInline' = tryInline
             /\ calls' = calls]_vars

\* C6 (as stated): while the comparator walks a pair, the entry of the pair
\* has kind UNKNOWN.
C6_UnknownDuringWalk ==
    \A i \in 1..Len(stack) :
       stack[i].pc = "walk" =>
          LET p == <<stack[i].FirstFun, stack[i].SecondFun>>
          IN Has(ComparedFuns, p) /\ ComparedFuns[p] = UNKNOWN

\* C7: a call on two declarations with equal base names records EQUAL,
\* appends no MissingDef and starts neither a walk nor an inlining, whatever
\* control-flow-only is.
C7_BothDeclarationsEqual ==
    [][(IsCall /\ BothDecl(CallF, CallG) /\ SameBase(CallF, CallG))
          => /\ Has(ComparedFuns', CallKey)
             /\ ComparedFuns'[CallKey] = EQUAL
             /\ MissingDefs' = MissingDefs
             /\ stack' = stack
             /\ calls' = calls
             /\ tryInline' = tryInline]_vars

\* C7 witness: foo and foo.1, both declarations, have been compared
C7_Witness ==
    /\ lastOp.op = "call"
    /\ BothDecl(lastOp.F, lastOp.G)
    /\ getName(lastOp.F) # getName(lastOp.G)
    /\ SameBase(lastOp.F, lastOp.G)
    /\ ComparedFuns[<<lastOp.F, lastOp.G>>] = EQUAL

\* the MissingDef of a pair with exactly one declaration
MissingDefOf(F, G) == IF isDeclaration(F) THEN <<F, Null>> ELSE <<Null, G>>

\* C8: with control-flow-only off, a call on one declaration and one
\* definition with equal base names appends exactly the MissingDef of the
\* declaration, leaves the kind UNKNOWN and starts no walk.
C8_OneDeclarationMissingDef ==
    [][(/\ IsCall /\ ~controlFlowOnly
        /\ OneDecl(CallF, CallG) /\ SameBase(CallF, CallG))
          => /\ MissingDefs' = Append(MissingDefs, MissingDefOf(CallF, CallG))
             /\ Has(ComparedFuns', CallKey)
             /\ ComparedFuns'[CallKey] = UNKNOWN
             /\ stack' = stack]_vars

\* C8 witness: both orders have been recorded, {decl, null} and {null, decl}
C8_Witness ==
    /\ ~controlFlowOnly
    /\ lastOp.op = "call"
    /\ MissingDefs = << <<"Lasm", Null>>, <<Null, "Rintr">> >>
    /\ ComparedFuns[<<"Lf", "Rintr">>] = UNKNOWN

\* C9: under control-flow-only a call on a pair with a declaration records
\* EQUAL when the base names match and NOT_EQUAL otherwise, and appends no
\* MissingDef.
C9_ControlFlowOnlyDeclarations ==
    [][(/\ IsCall /\ controlFlowOnly
        /\ isDeclaration(CallF) \/ isDeclaration(CallG))
          => /\ Has(ComparedFuns', CallKey)
             /\ ComparedFuns'[CallKey] =
                  IF SameBase(CallF, CallG) THEN EQUAL ELSE NOT_EQUAL
             /\ MissingDefs' = MissingDefs
             /\ stack' = stack]_vars

\* C9 witness: under control-flow-only a declaration/definition pair with
\* matching base names is EQUAL and a mismatching one NOT_EQUAL
C9_Witness ==
    /\ controlFlowOnly
    /\ Has(ComparedFuns, <<"Lasm", "Rg">>)
    /\ ComparedFuns[<<"Lasm", "Rg">>] = EQUAL
    /\ Has(ComparedFuns, <<"Lfa", "Rfoo">>)
    /\ ComparedFuns[<<"Lfa", "Rfoo">>] = NOT_EQUAL
    /\ MissingDefs = <<>>

\* C10: an iteration of the inlining loop that inlined nothing leaves the
\* loop with the pair NOT_EQUAL, and a call that left the loop returns
\* without another comparator invocation and without touching the cache.
C10_NothingInlinedNotEqual ==
    [][/\ (lastOp'.op = "loopIter" /\ ~lastOp'.inlined)
          => /\ stack' # <<>>
             /\ stack'[Len(stack')].pc = "ret"
             /\ Len(stack') = Len(stack)
             /\ Has(ComparedFuns', TopKey)
             /\ ComparedFuns'[TopKey] = NOT_EQUAL
       /\ (stack # <<>> /\ Top.pc = "ret")
          => /\ stack' = Pop
             /\ ComparedFuns' = ComparedFuns]_vars

\* C10 witness: InlineFunction was attempted and failed, the loop is left
C10_Witness ==
    /\ lastOp.op = "loopIter"
    /\ ~lastOp.inlined
    /\ lastOp.inlineFirst # Null
    /\ ~isDeclaration(lastOp.inlineFirst)
    /\ stack # <<>>
    /\ Top.pc = "ret"
    /\ ComparedFuns[TopKey] = NOT_EQUAL

\* the step re-invokes the comparator on the pair of the active call: the
\* call is not new and its position moves to the walk
Reinvokes ==
    /\ stack # <<>> /\ Len(stack') = Len(stack)
    /\ Top.pc # "walk"
    /\ stack'[Len(stack')].pc = "walk"

\* C11: the comparator is re-invoked only by a loop iteration in which an
\* InlineFunction call succeeded; that iteration has run simplifyFunction
\* on FirstFun and on SecondFun (also when one side only was inlined), has
\* cleared tryInline and has reset the entry of the pair to UNKNOWN.
C11_RetryOrdering ==
    [][Reinvokes =>
          /\ Top.pc = "loop"
          /\ lastOp'.op = "loopIter"
          /\ lastOp'.inlined
          /\ lastOp'.okFirst \/ lastOp'.okSecond
          /\ lastOp'.simplified = <<Top.FirstFun, Top.SecondFun>>
          /\ tryInline' = NoInline
          /\ Has(ComparedFuns', TopKey)
          /\ ComparedFuns'[TopKey] = UNKNOWN]_vars

\* C11 witness: one side only was inlined and the comparator runs again
C11_Witness ==
    /\ lastOp.op = "loopIter"
    /\ lastOp.okFirst /\ ~lastOp.okSecond
    /\ stack # <<>>
    /\ Top.pc = "walk" /\ Top.rerun
    /\ lastOp.simplified = <<Top.FirstFun, Top.SecondFun>>
    /\ ComparedFuns[TopKey] = UNKNOWN

\* the call instructions found by lines 109-110 in the current state
FoundFirst == findCallInst(tryInline[1], Top.FirstFun)
FoundSecond == findCallInst(tryInline[2], Top.SecondFun)

\* the step is a loop iteration that processes the callee of Call on the
\* first (second) side: InlineFunction is attempted or the callee goes to
\* missingDefs
ProcessesFirst(Call) ==
    /\ lastOp'.inlineFirst = getCalledFunction(Call)
    /\ lastOp'.md[1] = MissingOf(Call)
    /\ lastOp'.okFirst => Attempts(Call)
ProcessesSecond(Call) ==
    /\ lastOp'.inlineSecond = getCalledFunction(Call)
    /\ lastOp'.md[2] = MissingOf(Call)
    /\ lastOp'.okSecond => Attempts(Call)

\* the step leaves the first (second) side alone: nothing inlined, no
\* missingDefs component, the call instructions of the function unchanged
DefersFirst ==
    /\ lastOp'.inlineFirst = Null /\ ~lastOp'.okFirst /\ lastOp'.md[1] = Null
    /\ calls'[Top.FirstFun] = calls[Top.FirstFun]
DefersSecond ==
    /\ lastOp'.inlineSecond = Null /\ ~lastOp'.okSecond /\ lastOp'.md[2] = Null
    /\ calls'[Top.SecondFun] = calls[Top.SecondFun]

\* C12: in a loop iteration with a call to inline on both sides, when
\* exactly one callee is a field access abstraction that side is deferred
\* and the other side is processed; when both or neither is one, both sides
\* are processed.
C12_FieldAccessTieBreak ==
    [][(/\ lastOp'.op = "loopIter"
        /\ FoundFirst # NoCall /\ FoundSecond # NoCall)
          => LET faF == isSimpllFieldAccessAbstraction(getCalledFunction(FoundFirst))
                 faS == isSimpllFieldAccessAbstraction(getCalledFunction(FoundSecond))
             IN /\ (faF /\ ~faS) => DefersFirst /\ ProcessesSecond(FoundSecond)
                /\ (faS /\ ~faF) => DefersSecond /\ ProcessesFirst(FoundFirst)
                /\ (faF = faS) => /\ ProcessesFirst(FoundFirst)
                                  /\ ProcessesSecond(FoundSecond)]_vars

\* C12 witness: the field access abstraction of the first side was deferred
\* while g was inlined on the second side
C12_Witness ==
    /\ lastOp.op = "loopIter"
    /\ stack # <<>>
    /\ Top.pc = "walk" /\ Top.rerun
    /\ isSimpllFieldAccessAbstraction(Top.InlinedFunFirst)
    /\ Top.InlinedFunSecond # Null
    /\ ~isSimpllFieldAccessAbstraction(Top.InlinedFunSecond)
    /\ lastOp.inlineFirst = Null
    /\ lastOp.okSecond
    /\ Top.InlinedFunFirst \in calls[Top.FirstFun]

\* C13: InlineFunction is called only by a loop iteration, on a call
\* instruction whose callee has a body: the callee is neither a declaration
\* nor an intrinsic; no other step changes the call instructions of a
\* function.
C13_InlinerOnlyOnDefinitions ==
    [][/\ lastOp'.op = "loopIter" =>
            /\ lastOp'.triedFirst =>
                  /\ lastOp'.inlineFirst # Null
                  /\ ~isDeclaration(lastOp'.inlineFirst)
                  /\ ~isIntrinsic(lastOp'.inlineFirst)
            /\ lastOp'.triedSecond =>
                  /\ lastOp'.inlineSecond # Null
                  /\ ~isDeclaration(lastOp'.inlineSecond)
                  /\ ~isIntrinsic(lastOp'.inlineSecond)
       /\ \A F \in Funs :
            calls'[F] # calls[F] =>
               /\ lastOp'.op = "loopIter"
               /\ \/ F = lastOp'.F /\ lastOp'.okFirst /\ lastOp'.triedFirst
                  \/ F = lastOp'.G /\ lastOp'.okSecond /\ lastOp'.triedSecond]_vars

\* C13 witness: an iteration whose first callee is a declaration (not
\* passed to InlineFunction) and whose second callee has a body and was
\* inlined
C13_Witness ==
    /\ lastOp.op = "loopIter"
    /\ lastOp.inlineFirst # Null
    /\ isDeclaration(lastOp.inlineFirst)
    /\ ~lastOp.triedFirst
    /\ lastOp.triedSecond /\ lastOp.okSecond
    /\ lastOp.inlineSecond \notin calls[lastOp.G]

\* the missingDefs component of a side whose processed callee is Callee
\* (Null when the side is not processed)
ComponentOf(Callee) ==
    IF /\ Callee # Null
       /\ isDeclaration(Callee)
       /\ ~isIntrinsic(Callee)
       /\ ~isSimpllAbstraction(Callee)
    THEN Callee ELSE Null

\* C14: a loop iteration appends to MissingDefs at most one pair; the pair
\* holds, per processed side, the callee exactly when it is a declaration
\* that is neither an intrinsic nor an abstraction, and is appended exactly
\* when a component is set, whether or not something was inlined; the
\* component of a side that was inlined is null.
C14_LoopMissingDefs ==
    [][lastOp'.op = "loopIter" =>
          LET md == <<ComponentOf(lastOp'.inlineFirst),
                      ComponentOf(lastOp'.inlineSecond)>>
          IN /\ MissingDefs' = IF md = NoFuns THEN MissingDefs
                               ELSE Append(MissingDefs, md)
             /\ lastOp'.okFirst => md[1] = Null
             /\ lastOp'.okSecond => md[2] = Null]_vars

\* C14 witness: the first callee has no body and was recorded as
\* {callee, nullptr}, the second callee was inlined
C14_Witness ==
    /\ lastOp.op = "loopIter"
    /\ lastOp.inlineFirst # Null
    /\ lastOp.okSecond
    /\ MissingDefs # <<>>
    /\ MissingDefs[Len(MissingDefs)] = <<lastOp.inlineFirst, Null>>

\* the step is the code behind a re-comparison (lines 200-218)
AfterRerun == stack # <<>> /\ Top.pc = "post" /\ Top.rerun

\* the callees of the two call instructions chosen for inlining in the
\* iteration that led to the re-comparison (lines 114-121)
InlinedPair == <<Top.InlinedFunFirst, Top.InlinedFunSecond>>

\* C15: behind a re-comparison that returned 0 the entry of the callee
\* pair of the iteration is gone and every entry other than those of the
\* callee pair and of the compared pair is kept with its kind; behind a
\* re-comparison that returned nonzero, and in every other step, no entry
\* is removed.
C15_CalleePairInvalidated ==
    [][/\ (AfterRerun /\ Top.result = 0) =>
            /\ ~Has(ComparedFuns', InlinedPair)
            /\ \A p \in DOMAIN ComparedFuns \ {InlinedPair, TopKey} :
                  Has(ComparedFuns', p) /\ ComparedFuns'[p] = ComparedFuns[p]
            /\ DOMAIN ComparedFuns' = DOMAIN ComparedFuns \ {InlinedPair}
       /\ ~(AfterRerun /\ Top.result = 0) =>
            DOMAIN ComparedFuns \subseteq DOMAIN ComparedFuns']_vars

\* C15 witness: g was compared on its own and inlined on both sides; the
\* re-comparison of f returned 0, f is EQUAL and the entry of the callee
\* pair is gone while the entry of another pair is kept
C15_Witness ==
    /\ ~failed
    /\ lastOp.op = "post"
    /\ lastOp.erased # NoFuns
    /\ lastOp.erased[1] # Null /\ lastOp.erased[2] # Null
    /\ lastOp.erased \in everCompared
    /\ ~Has(ComparedFuns, lastOp.erased)
    /\ Has(ComparedFuns, <<lastOp.F, lastOp.G>>)
    /\ ComparedFuns[<<lastOp.F, lastOp.G>>] = EQUAL
    /\ Cardinality(DOMAIN ComparedFuns) >= 2

\* the call instructions of the pair under comparison that InlineFunction
\* can still replace: those whose callee has a body
Remaining(cs) ==
    Cardinality({c \in cs[Top.FirstFun] : ~isDeclaration(c)})
       + Cardinality({c \in cs[Top.SecondFun] : ~isDeclaration(c)})

\* C16 (as stated): every loop iteration that goes on to a re-comparison
\* leaves strictly fewer call instructions that can still be inlined in
\* the two functions, also when a callee is recursive.
C16_IterationReducesCalls ==
    [][(lastOp'.op = "loopIter" /\ lastOp'.inlined)
          => Remaining(calls') < Remaining(calls)]_vars

\* a MissingDefs list with the components of every element exchanged
SwapMD(md) == [i \in 1..Len(md) |-> <<md[i][2], md[i][1]>>]

\* a run has returned or has left compareFunctions by an exception
Returned(run) == run.pc \in {"done", "threw"}

\* C17: when compareFunctions(F, G) has returned on one instance,
\* compareFunctions(G, F) on the instance with the modules swapped has
\* returned as well, every pair has the same kind in both caches and the
\* MissingDefs of the one are those of the other with the components
\* exchanged.
C17_Symmetry ==
    (sym.pc = "run" /\ Returned(sym.A)) =>
       /\ sym.B.pc = sym.A.pc
       /\ DOMAIN sym.B.CF = {<<p[2], p[1]>> : p \in DOMAIN sym.A.CF}
       /\ \A p \in DOMAIN sym.A.CF : sym.B.CF[<<p[2], p[1]>>] = sym.A.CF[p]
       /\ sym.B.MD = SwapMD(sym.A.MD)

\* C17 witness: a comparison that went through the inlining loop, deferred
\* nothing or something, and recorded a MissingDef with one null component
C17_Witness ==
    /\ sym.pc = "run"
    /\ sym.A.pc = "done" /\ sym.A.rerun
    /\ sym.A.MD # <<>>
    /\ sym.A.MD[Len(sym.A.MD)][1] # Null
    /\ sym.A.MD[Len(sym.A.MD)][2] = Null
    /\ sym.B.MD[Len(sym.B.MD)] = <<Null, sym.A.MD[Len(sym.A.MD)][1]>>
    /\ sym.A.CF[<<sym.A.First, sym.A.Second>>] = NOT_EQUAL

\* the void-returning variants the pass has created so far
Variants == {j \in 1..Len(rv.funs) : rv.funs[j].variantOf # 0}

\* the function a variant was created from (the id of a function is its
\* position in rv.funs)
OriginalOf(j) == rv.funs[rv.funs[j].variantOf]

\* C18 (as stated): a function is replaced by a void-returning variant
\* only if the function of the same name in the other module returns void.
C18_ConvertedOnlyIfOtherVoid ==
    \A j \in Variants : rv.funs[j].otherVoid

NameAtStart(id) == IF id = 1 THEN "f" ELSE "g"

Stripped(al, res) ==
    /\ res.ret = al.ret \ badAttributes
    /\ res.fn = al.fn \ badAttributes
    /\ res.par = al.par
    /\ res.ret \cap badAttributes = {}
    /\ res.fn \cap badAttributes = {}

\* C20: every variant, and every call or invoke instruction created to
\* call it, has none of the bad attribute kinds at the return index and at
\* the function index and has all other attributes and the calling
\* convention of the function or instruction it replaces; a created
\* instruction is of the kind of the replaced one, and a created call is a
\* tail call exactly when the replaced call was.
C20_BadAttributesStripped ==
    \A j \in Variants :
       /\ Stripped(OriginalOf(j).attrs, rv.funs[j].attrs)
       /\ rv.funs[j].cc = OriginalOf(j).cc
       /\ \A i \in 1..Len(rv.funs[j].uses) :
             LET u == rv.funs[j].uses[i]
             IN /\ u.from # NoFrom
                /\ Stripped(u.from.attrs, u.attrs)
                /\ u.cc = u.from.cc
                /\ u.kind = u.from.kind
                /\ u.tail = u.from.tail

\* C20 witness: the pass has returned; a variant was created from a
\* function with bad attributes at both indices, a tail call and an invoke
\* with bad attributes were replaced
C20_Witness ==
    /\ rv.pc = "done"
    /\ \E j \in Variants :
          /\ OriginalOf(j).attrs.ret \cap badAttributes # {}
          /\ OriginalOf(j).attrs.fn \cap badAttributes # {}
          /\ Len(rv.funs[j].uses) = 2
          /\ rv.funs[j].uses[1].kind = "call" /\ rv.funs[j].uses[1].tail
          /\ rv.funs[j].uses[1].from.attrs.fn \cap badAttributes # {}
          /\ rv.funs[j].uses[2].kind = "invoke"
          /\ rv.funs[j].uses[2].from.attrs.ret \cap badAttributes # {}

\* Name contains a dot and only decimal digits behind its last dot
DigitsBehindLastDot(Name) ==
    \E k \in 1..Len(Name) :
       /\ Name[k] = "."
       /\ \A i \in (k + 1)..Len(Name) : Name[i] \in Digits

\* C21: hasSuffix(Name) returns true exactly when Name contains a '.' and
\* the substring behind the last '.' contains only decimal digits, and
\* false for every other name.
C21_HasSuffixMatchesReference ==
    ut.pc = "has" => (ut.result <=> DigitsBehindLastDot(ut.Name))

\* Base is Name cut before its last dot, and only digits were cut off
CutAtLastDot(Name, Base) ==
    \E k \in 1..Len(Name) :
       /\ Name[k] = "."
       /\ \A i \in (k + 1)..Len(Name) : Name[i] \in Digits
       /\ Base = SubSeq(Name, 1, k - 1)

\* the number of dots in Name
Dots(Name) == Cardinality({i \in 1..Len(Name) : Name[i] = "."})

\* C28 as stated: for every name on which hasSuffix is true, dropSuffix
\* returns a base name on which hasSuffix is false.
C28_StrippingComplete ==
    ut.pc = "dropped" => ~hasSuffix(ut.Base)

\* C28, amended: for every name on which hasSuffix is true, dropSuffix
\* returns the name cut before its last '.', which takes off one numeric
\* suffix; hasSuffix is false on the result when the name has one dot, and
\* two declarations named N and N.<digits>, N with a character that is
\* neither digit nor dot and without a dot, compare Equal.
C28_OneSuffixStripped ==
    /\ ut.pc = "dropped" =>
          /\ CutAtLastDot(ut.Name, ut.Base)
          /\ Dots(ut.Name) = 1 => ~hasSuffix(ut.Base)
    /\ (/\ ut.pc = "compared"
        /\ Dots(ut.Other) = 0
        /\ \E i \in 1..Len(ut.Other) : ut.Other[i] \notin Digits
        /\ CutAtLastDot(ut.Name, ut.Other))
       => ut.kind = EQUAL

\* C28 witness: dropSuffix was applied to a name with two numeric suffixes
\* and the result still has one
C28_Witness ==
    /\ ut.pc = "dropped"
    /\ Dots(ut.Name) = 2
    /\ hasSuffix(ut.Base)

\* the functions that were definitions when the pass started
DefinitionsAtStart == {i \in 1..Len(rv.funs) : i \notin Variants /\ rv.funs[i].hadBody}

\* C22: the pass ignores functions with a body: no void-returning variant
\* is created from a function definition, and every function definition
\* is left in the module as it was, with its name, return type and body.
C22_DefinitionsIgnored ==
    /\ \A j \in Variants : ~OriginalOf(j).hadBody
    /\ \A i \in DefinitionsAtStart :
          /\ rv.funs[i].inModule
          /\ rv.funs[i].name = NameAtStart(i)
          /\ rv.funs[i].body = "ret"

\* an instruction with a debug location in function A calls or references
\* function B
RefEdge(M, A, B) == \E i \in 1..Len(M[A]) : M[A][i].fun = B /\ M[A][i].loc

\* the functions reachable from the functions S over at most n such edges
RECURSIVE ReachableIn(_, _, _)
ReachableIn(M, S, n) ==
    IF n = 0 THEN S
    ELSE ReachableIn(M, S \cup {B \in StackFuns : \E A \in S : RefEdge(M, A, B)},
                     n - 1)

Reachable(M, Src, Dest) == Dest \in ReachableIn(M, {Src}, Cardinality(StackFuns))

\* C23: getCallStack(Src, Dest) for Src different from Dest returns a
\* non-empty stack exactly when Dest is reachable from Src over references
\* by instructions with a debug location; the first entry is then
\* referenced from Src, each later entry from the function of the entry
\* before it, the last entry is Dest and no function occurs twice; the
\* stack is empty when Dest is unreachable, on cyclic call graphs too.
C23_CallStackIsPath ==
    (ut.pc = "stack" /\ ut.Src # ut.Dest) =>
       LET cs == ut.callStack
           n == Len(cs)
       IN /\ (n > 0) <=> Reachable(ut.M, ut.Src, ut.Dest)
          /\ (n > 0) =>
                /\ RefEdge(ut.M, ut.Src, cs[1].fun)
                /\ \A k \in 2..n : RefEdge(ut.M, cs[k - 1].fun, cs[k].fun)
                /\ cs[n].fun = ut.Dest
                /\ \A k, l \in 1..n : cs[k].fun = cs[l].fun => k = l

\* C23 witness: on a cyclic call graph the search went into a function that
\* only leads back to Src, gave it up and found Dest behind a later
\* reference: the stack holds Dest alone although Dest is not the first
\* function Src refers to
C23_Witness ==
    /\ ut.pc = "stack" /\ ut.Src # ut.Dest
    /\ Len(ut.callStack) = 1
    /\ ut.M[ut.Src][1].loc /\ ut.M[ut.Src][1].fun \notin {ut.Src, ut.Dest}
    /\ RefEdge(ut.M, ut.M[ut.Src][1].fun, ut.Src)

\* a call instruction of A calls B directly
CallEdge(M, A, B) ==
    \E i \in 1..Len(M[A].insts) :
       M[A].insts[i].op = "call" /\ M[A].insts[i].called = B

\* the functions reachable from the functions S over at most n direct calls
RECURSIVE CalledIn(_, _, _)
CalledIn(M, S, n) ==
    IF n = 0 THEN S
    ELSE CalledIn(M, S \cup {B \in EffectFuns : \E A \in S : CallEdge(M, A, B)},
                  n - 1)

\* F is a declaration other than the three harmless intrinsics, or holds a
\* store instruction or an indirect call
EffectIn(M, F) ==
    \/ M[F].isDeclaration /\ M[F].id \notin {"dbg_declare", "dbg_value", "expect"}
    \/ \E i \in 1..Len(M[F].insts) :
          \/ M[F].insts[i].op = "store"
          \/ M[F].insts[i].op = "call" /\ M[F].insts[i].called = Null

\* C24: hasSideEffect(F) returns a value on every call graph, recursive
\* ones included, and the value is true exactly when F or a function
\* reachable from F through direct calls is a declaration other than the
\* dbg.declare, dbg.value and expect intrinsics or contains a store
\* instruction or an indirect call.
C24_SideEffectReachable ==
    ut.pc = "effect" =>
       /\ ut.result \in BOOLEAN
       /\ ut.result <=>
             \E F \in CalledIn(ut.M, {ut.Fun}, Cardinality(EffectFuns)) :
                EffectIn(ut.M, F)

\* C24 witness: hasSideEffect has returned false for a function that
\* calls a function which calls it back (mutual recursion)
C24_Witness ==
    /\ ut.pc = "effect"
    /\ ~ut.result
    /\ \E G \in EffectFuns \ {ut.Fun} :
          CallEdge(ut.M, ut.Fun, G) /\ CallEdge(ut.M, G, ut.Fun)

\* C25: the cache entry of a pair whose comparison is in progress is never
\* erased: every active pair has its entry, and no ComparedFuns.at of a
\* compareFunctions call on its own pair fails, also when the inlined
\* callees are the compared functions themselves or when a nested call
\* invalidates an enclosing active pair.
C25_ActiveEntryNeverErased ==
    /\ ~failed
    /\ \A p \in ActivePairs : Has(ComparedFuns, p)

\* C26: the tryInline channel is empty whenever compareFunctions returns,
\* on every path, and whenever it is entered: call sites are on the channel
\* only between a comparator run of a call that returned nonzero and the
\* loop iteration of that same call, so no call of compareFunctions
\* consumes call sites recorded during another one.
C26_TryInlineEmptyOnReturn ==
    tryInline # NoInline =>
       /\ stack # <<>>
       /\ Top.pc \in {"post", "loop"}
       /\ Top.result # 0

\* C26 witness: a nested call took call sites from the channel, inlined
\* nothing and is about to return to the enclosing comparison through the
\* break; the channel is empty
C26_Witness ==
    /\ Len(stack) = 2
    /\ Top.pc = "ret"
    /\ lastOp.op = "loopIter"
    /\ lastOp.inlineFirst # Null \/ lastOp.inlineSecond # Null
    /\ ~lastOp.inlined
    /\ tryInline = NoInline

\* the callee of the call instruction Site when it is one of the call
\* instructions of F, else null
CalleeAt(Site, F) == IF Site # NoCall /\ Site \in CallSites(F) THEN Site[2] ELSE Null

\* the positions of the calls that are active before and after the step
Staying == {i \in 1..Len(stack) : i <= Len(stack')}

C29_OneCallPerCallee ==
    /\ \A a, b \in ut.calls : a.fun = b.fun => a = b
    /\ ut.n > 0 =>
          IF \E e \in ut.prev : e.fun = ut.last.fun
          THEN ut.calls = ut.prev
          ELSE ut.calls = ut.prev \cup {ut.last}
    /\ ut.calls = ut.first

\* C29 witness: addCall was given a callee that is present with another
\* line; two callees are in the set, the first line of each is kept
C29_Witness ==
    /\ ut.n = MaxCalls
    /\ Cardinality(ut.calls) = 2
    /\ \E e \in ut.calls : e.fun = ut.last.fun /\ e.line # ut.last.line

====
